---- MODULE Spec2Model ----
(***************************************************************************)
(* Model of Tethering/jni/onload.cpp: the JNI_OnLoad bootstrap of the      *)
(* tethering JNI library.  One load attempt is one call of JNI_OnLoad; the *)
(* call is split at its external calls (GetEnv, the four registration      *)
(* functions, the log print), whose results are the inputs of the model.   *)
(***************************************************************************)
EXTENDS Integers, Sequences, FiniteSets, TLC

\* ---------------------------------------------------------------- bounds
\* Number of load attempts the host makes in one behaviour.
MaxLoads == 3

\* ------------------------------------------------------------- constants
\* jni.h tokens used by onload.cpp.
JNI_OK == 0
JNI_ERR == -1
JNI_VERSION_1_6 == 65542

\* Results GetEnv can hand back: JNI_OK, JNI_ERR, JNI_EDETACHED, JNI_EVERSION.
GetEnvRets == {JNI_OK, JNI_ERR, -2, -3}

\* Results a registration function can hand back (a C int, 32 bits):
\* both extremes of the range and the values next to zero.
INT_MAX == 2147483647
INT_MIN == -INT_MAX - 1
RetVals == {INT_MIN, -1, 0, INT_MAX}

\* Environment handles the host virtual machine can hand out (one per
\* thread that performs the load).
Handles == {"envA", "envB"}

\* Value of the local 'JNIEnv *env' while it holds nothing the code may use
\* (before GetEnv has written it, and once the call has returned and the
\* local is gone), and what GetEnv stores through its out parameter when it
\* fails.
Uninit == "uninit"
NullEnv == "null"

\* Symbols of the external functions.
FnGetEnv == "GetEnv"
FnLog == "__android_log_print"
FnTetheringUtils == "register_com_android_networkstack_tethering_util_TetheringUtils"
FnBpfMap == "register_com_android_net_module_util_BpfMap"
FnTcUtils == "register_com_android_net_module_util_TcUtils"
FnBpfCoordinator == "register_com_android_networkstack_tethering_BpfCoordinator"
FnBpfUtils == "register_com_android_networkstack_tethering_BpfUtils"

\* The registration functions declared in the file (lines 25-29).
Declared == {FnBpfMap, FnTcUtils, FnBpfCoordinator, FnBpfUtils, FnTetheringUtils}

LOG_TAG == "TetheringJni"

\* ----------------------------------------------------------------- state
VARIABLES
    pc,         \* position in JNI_OnLoad: "idle", "L33", "L38", "L40", "L43", "L46", "L48", "done"
    loads,      \* number of load attempts started so far
    vmEnv,      \* the environment handle the host VM owns for the loading thread
    env,        \* the local 'JNIEnv *env' of JNI_OnLoad
    trace,      \* external calls made by the current load attempt, in order
    ret,        \* <<>> while JNI_OnLoad has not returned, <<token>> afterwards
    installed,  \* capability tables installed in the runtime
    atLoad,     \* the tables that were installed when the current attempt started
    ref         \* at most one earlier, completed load attempt (its inputs and outcome)

vars == <<pc, loads, vmEnv, env, trace, ret, installed, atLoad, ref>>

\* One entry of the trace: the function called, the environment handle
\* passed to it (for GetEnv: the handle it stored through its out
\* parameter), its string argument, and what it returned.
Call(fn, e, arg, r) == [fn |-> fn, env |-> e, arg |-> arg, ret |-> r]

\* The log print of line 34 takes no environment handle; its priority, tag
\* and message make up the line, and its return value is discarded.
NoEnv == "-"
FatalLine == Call(FnLog, NoEnv, "F/" \o LOG_TAG \o ": ERROR: GetEnv failed", 0)

\* ------------------------------------------------------- the code's tests
\* Each definition that models the code is preceded by the faulty variants
\* of it that the properties at the end are shown to rule out.
\* line 33: vm->GetEnv(...) != JNI_OK
GetEnvFailedAlways(rc) == TRUE
GetEnvFailedOnlyErr(rc) == rc = JNI_ERR
GetEnvFailed(rc) == rc # JNI_OK

\* lines 38, 41, 44, 46: register_...(...) < 0
FailedBelowMinusOne(r) == r < -1
FailedNonPositive(r) == r <= 0
FailedSticky(r) == r < 0 \/ (r = 0 /\ installed # {})
Failed(r) == r < 0

\* The statement that follows each registration statement.
NextStmtSwapped(l) ==
    CASE l = "L38" -> "L43"
      [] l = "L43" -> "L40"
      [] l = "L40" -> "L46"
      [] l = "L46" -> "L48"
NextStmt(l) ==
    CASE l = "L38" -> "L40"
      [] l = "L40" -> "L43"
      [] l = "L43" -> "L46"
      [] l = "L46" -> "L48"

\* The function each registration statement calls and the class name it
\* passes ("" where the function takes the environment only).
RegistrationAtBpfUtils(l) ==
    CASE l = "L38" -> [fn |-> FnTetheringUtils, arg |-> ""]
      [] l = "L40" -> [fn |-> FnBpfMap, arg |-> "com/android/networkstack/tethering/util/BpfMap"]
      [] l = "L43" -> [fn |-> FnTcUtils, arg |-> "com/android/networkstack/tethering/util/TcUtils"]
      [] l = "L46" -> [fn |-> FnBpfUtils, arg |-> ""]
RegistrationAt(l) ==
    CASE l = "L38" -> [fn |-> FnTetheringUtils, arg |-> ""]
      [] l = "L40" -> [fn |-> FnBpfMap, arg |-> "com/android/networkstack/tethering/util/BpfMap"]
      [] l = "L43" -> [fn |-> FnTcUtils, arg |-> "com/android/networkstack/tethering/util/TcUtils"]
      [] l = "L46" -> [fn |-> FnBpfCoordinator, arg |-> ""]

\* Effect of a registration function on the runtime: a call that reports
\* success has installed its table; registration is additive.
Installs(inst, fn, r) == IF r >= 0 THEN inst \cup {fn} ELSE inst

\* ----------------------------------------------------------------- Init
Init ==
    /\ pc = "idle"
    /\ loads = 0
    /\ vmEnv \in Handles
    /\ env = Uninit
    /\ trace = <<>>
    /\ ret = <<>>
    /\ installed = {}
    /\ atLoad = {}
    /\ ref = {}

\* What is kept of a completed attempt: the handle the VM owned, the calls
\* with their results, and the token returned.
Attempt == [vmEnv |-> vmEnv, trace |-> trace, ret |-> ret]

\* -------------------------------------------------------------- actions
\* The host loader calls JNI_OnLoad(vm, reserved) on some thread (line 31);
\* 'env' is declared and not initialised (line 32).
JNI_OnLoad ==
    /\ pc \in {"idle", "done"}
    /\ loads < MaxLoads
    /\ loads' = loads + 1
    /\ \E h \in Handles : vmEnv' = h
    /\ env' = Uninit
    /\ trace' = <<>>
    /\ ret' = <<>>
    /\ atLoad' = installed
    /\ ref' \in (IF pc = "done" THEN {ref, {Attempt}} ELSE {ref})
    /\ pc' = "L33"
    /\ UNCHANGED installed

\* lines 33-36: GetEnv, and on failure the fatal log line and return JNI_ERR.
\* The value GetEnv leaves in 'env' when it fails is never read.
GetEnv ==
    /\ pc = "L33"
    /\ \E rc \in GetEnvRets :
         LET got == IF rc = JNI_OK THEN vmEnv ELSE NullEnv
             call == Call(FnGetEnv, got, "", rc)
         IN  IF GetEnvFailed(rc)
               THEN /\ trace' = trace \o <<call, FatalLine>>
                    /\ ret' = <<JNI_ERR>>
                    /\ env' = Uninit
                    /\ pc' = "done"
               ELSE /\ trace' = Append(trace, call)
                    /\ ret' = ret
                    /\ env' = got
                    /\ pc' = "L38"
    /\ UNCHANGED <<loads, vmEnv, installed, atLoad, ref>>

\* One registration statement 'if (register_...(env, ...) < 0) return JNI_ERR;'.
RegisterStepRollback(l) ==
    /\ pc = l
    /\ \E r \in RetVals :
         LET reg == RegistrationAt(l)
         IN  /\ trace' = Append(trace, Call(reg.fn, env, reg.arg, r))
             /\ IF Failed(r)
                  THEN /\ installed' = atLoad
                       /\ ret' = <<JNI_ERR>>
                       /\ env' = Uninit
                       /\ pc' = "done"
                  ELSE /\ installed' = Installs(installed, reg.fn, r)
                       /\ ret' = ret
                       /\ env' = env
                       /\ pc' = NextStmt(l)
    /\ UNCHANGED <<loads, vmEnv, atLoad, ref>>
RegisterStep(l) ==
    /\ pc = l
    /\ \E r \in RetVals :
         LET reg == RegistrationAt(l)
         IN  /\ trace' = Append(trace, Call(reg.fn, env, reg.arg, r))
             /\ installed' = Installs(installed, reg.fn, r)
             /\ IF Failed(r)
                  THEN /\ ret' = <<JNI_ERR>>
                       /\ env' = Uninit
                       /\ pc' = "done"
                  ELSE /\ ret' = ret
                       /\ env' = env
                       /\ pc' = NextStmt(l)
    /\ UNCHANGED <<loads, vmEnv, atLoad, ref>>

\* line 38
register_com_android_networkstack_tethering_util_TetheringUtils == RegisterStep("L38")
\* lines 40-41
register_com_android_net_module_util_BpfMap == RegisterStep("L40")
\* lines 43-44
register_com_android_net_module_util_TcUtils == RegisterStep("L43")
\* line 46
register_com_android_networkstack_tethering_BpfCoordinator == RegisterStep("L46")

\* line 48: return JNI_VERSION_1_6
ReturnVersionOk ==
    /\ pc = "L48"
    /\ ret' = <<JNI_OK>>
    /\ env' = Uninit
    /\ pc' = "done"
    /\ UNCHANGED <<loads, vmEnv, trace, installed, atLoad, ref>>
ReturnVersion ==
    /\ pc = "L48"
    /\ ret' = <<JNI_VERSION_1_6>>
    /\ env' = Uninit
    /\ pc' = "done"
    /\ UNCHANGED <<loads, vmEnv, trace, installed, atLoad, ref>>

Next ==
    \/ JNI_OnLoad
    \/ GetEnv
    \/ register_com_android_networkstack_tethering_util_TetheringUtils
    \/ register_com_android_net_module_util_BpfMap
    \/ register_com_android_net_module_util_TcUtils
    \/ register_com_android_networkstack_tethering_BpfCoordinator
    \/ ReturnVersion

Spec == Init /\ [][Next]_vars

\* --------------------------------------------------- reading the trace
\* The fixed order of the load sequence (lines 38, 40, 43, 46).
Order == <<FnTetheringUtils, FnBpfMap, FnTcUtils, FnBpfCoordinator>>

IsReg(c) == c.fn \in Declared
IsLog(c) == c.fn = FnLog
RegsOf(t) == SelectSeq(t, IsReg)
RegCalls == RegsOf(trace)
LogCalls == SelectSeq(trace, IsLog)
Results(t) == [i \in 1..Len(RegsOf(t)) |-> RegsOf(t)[i].ret]
Names(t) == [i \in 1..Len(t) |-> t[i].fn]

Returned == pc = "done"
GetEnvCalled == Len(trace) >= 1 /\ trace[1].fn = FnGetEnv
EnvAcquired == GetEnvCalled /\ trace[1].ret = JNI_OK
EnvRefused == GetEnvCalled /\ trace[1].ret # JNI_OK
AllNonNegative == \A i \in 1..Len(RegCalls) : RegCalls[i].ret >= 0
\* The n-th registration call of this attempt returned a negative value.
FailedAt(n) == Len(RegCalls) >= n /\ RegCalls[n].ret < 0
Min2(a, b) == IF a < b THEN a ELSE b

\* ---------------------------------------------------------------- claims
\* C1: if the Nth registration call (N = 1..4) returns a negative value,
\* JNI_OnLoad returns JNI_ERR and no registration call after the Nth is made
\* in that load attempt.
C1_ShortCircuit ==
    \A n \in 1..4 :
        FailedAt(n) => /\ Returned
                       /\ ret = <<JNI_ERR>>
                       /\ Len(RegCalls) = n
\* The scenario [0, -1, _, _]: the second call fails, the third and fourth
\* are never made.
C1_Witness ==
    /\ Returned
    /\ ret = <<JNI_ERR>>
    /\ Results(trace) = <<0, -1>>
    /\ Names(RegCalls) = <<FnTetheringUtils, FnBpfMap>>

\* C2: if GetEnv fails, JNI_OnLoad returns JNI_ERR, emits exactly one fatal
\* log line and makes no registration call.
C2_GetEnvFailure ==
    EnvRefused => /\ Returned
                  /\ ret = <<JNI_ERR>>
                  /\ LogCalls = <<FatalLine>>
                  /\ RegCalls = <<>>
                  /\ trace = <<trace[1], FatalLine>>
C2_Witness ==
    /\ Returned
    /\ GetEnvCalled
    /\ trace[1].ret = -2
    /\ ret = <<JNI_ERR>>
    /\ Len(LogCalls) = 1

\* C3: if GetEnv succeeds and every registration call returns a non-negative
\* value, JNI_OnLoad returns JNI_VERSION_1_6 after calling TetheringUtils,
\* BpfMap, TcUtils and BpfCoordinator registration exactly once, in that order.
C3_AllSucceed ==
    (Returned /\ EnvAcquired /\ AllNonNegative) =>
        /\ ret = <<JNI_VERSION_1_6>>
        /\ Names(RegCalls) = Order
C3_Witness ==
    /\ Returned
    /\ EnvAcquired
    /\ Results(trace) = <<0, 0, 0, 0>>
    /\ ret = <<JNI_VERSION_1_6>>

\* C4: when the Nth registration call fails, the calls before it were made
\* exactly once each, in the fixed order, and each of them and the failing
\* one received the environment handle GetEnv obtained from the VM.
C4_PrefixInOrderSameEnv ==
    \A n \in 1..4 :
        (Returned /\ FailedAt(n)) =>
            /\ EnvAcquired
            /\ Names(RegCalls) = SubSeq(Order, 1, n)
            /\ \A i \in 1..n : /\ RegCalls[i].env = trace[1].env
                               /\ RegCalls[i].env = vmEnv
C4_Witness ==
    /\ Returned
    /\ FailedAt(3)
    /\ vmEnv = "envB"
    /\ Len(RegCalls) = 3
    /\ \A i \in 1..3 : RegCalls[i].env = "envB"

\* C5: a registration result is a failure if and only if it is negative:
\* after any r >= 0 the load goes on, after any r < 0 it ends with JNI_ERR,
\* whatever the magnitude of r.
C5_NegativeIffFailure ==
    \A i \in 1..Len(RegCalls) :
        (RegCalls[i].ret < 0) <=>
            (i = Len(RegCalls) /\ Returned /\ ret = <<JNI_ERR>>)
C5_Witness ==
    /\ Returned
    /\ Results(trace) = <<INT_MAX, 0, INT_MIN>>
    /\ ret = <<JNI_ERR>>

\* C6: JNI_OnLoad emits a log line only when GetEnv fails: in a load attempt
\* where GetEnv succeeds there is no log line, also when a registration fails.
C6_NoLogAfterGetEnv ==
    /\ EnvAcquired => LogCalls = <<>>
    /\ LogCalls # <<>> => EnvRefused
C6_Witness ==
    /\ Returned
    /\ EnvAcquired
    /\ \E n \in 1..4 : FailedAt(n)
    /\ LogCalls = <<>>

\* C7: two load attempts with the same GetEnv outcome and the same sequence
\* of registration results return the same token and make the same sequence
\* of registration calls.
SameInputs(a) ==
    /\ a.vmEnv = vmEnv
    /\ a.trace[1].ret = trace[1].ret
    /\ \A i \in 1..Min2(Len(Results(a.trace)), Len(Results(trace))) :
           Results(a.trace)[i] = Results(trace)[i]
C7_Repeatable ==
    Returned =>
        \A a \in ref :
            SameInputs(a) => /\ a.ret = ret
                             /\ a.trace = trace
C7_Witness ==
    /\ Returned
    /\ loads = 3
    /\ \E a \in ref : /\ SameInputs(a)
                      /\ Len(RegsOf(a.trace)) = 4
                      /\ a.ret = <<JNI_VERSION_1_6>>
                      /\ a.trace = trace

\* C8: every load attempt ends in Loaded or Failed: JNI_OnLoad returns
\* JNI_VERSION_1_6 or JNI_ERR and nothing else, and JNI_VERSION_1_6 exactly
\* when GetEnv succeeded and all four registration calls were non-negative.
C8_TwoTerminalStates ==
    /\ Returned <=> Len(ret) = 1
    /\ ~Returned => ret = <<>>
    /\ Returned =>
         /\ ret \in {<<JNI_VERSION_1_6>>, <<JNI_ERR>>}
         /\ (ret = <<JNI_VERSION_1_6>>) <=>
                (EnvAcquired /\ Len(RegCalls) = 4 /\ AllNonNegative)
C8_Witness ==
    /\ Returned
    /\ ret = <<JNI_VERSION_1_6>>
    /\ \E a \in ref : a.ret = <<JNI_ERR>>

\* C9: the BpfUtils registration function is never called, and a load
\* attempt makes at most four registration calls.
C9_BpfUtilsNeverCalled ==
    /\ \A i \in 1..Len(trace) : trace[i].fn # FnBpfUtils
    /\ Len(RegCalls) <= 4
    /\ FnBpfUtils \notin installed
C9_Witness ==
    /\ Returned
    /\ Len(RegCalls) = 4
    /\ ret = <<JNI_VERSION_1_6>>
    /\ installed = {FnTetheringUtils, FnBpfMap, FnTcUtils, FnBpfCoordinator}

\* C10: when a registration call fails there is no rollback and no cleanup:
\* the tables installed by the earlier successful calls stay installed, the
\* failing call is the last call made, and the environment handle is not
\* kept once JNI_OnLoad has returned.
C10_NoRollback ==
    \A n \in 1..4 :
        (Returned /\ FailedAt(n)) =>
            /\ installed = atLoad \cup {RegCalls[i].fn : i \in 1..(n - 1)}
            /\ trace[Len(trace)] = RegCalls[n]
            /\ env = Uninit
C10_Witness ==
    /\ Returned
    /\ FailedAt(3)
    /\ atLoad = {}
    /\ installed = {FnTetheringUtils, FnBpfMap}

====
